---- MODULE Spec2Model ----
(***************************************************************************)
(* Memo-card application: the App state controller (src/App.tsx), the      *)
(* add-card form (src/components/AddCardForm.tsx), the Gemini adapter      *)
(* (services/ai/geminiAdapter.ts), the per-user data service               *)
(* (services/db/dataService.ts) and the backend tables it talks to.        *)
(*                                                                         *)
(* Every async handler is split at its awaits: a "start" step (the code up *)
(* to the await), a "Server" step (the remote service executes the call)   *)
(* and a "Reply" step (the code after the await).  State updates and the   *)
(* React render that follows them are one step.                            *)
(*                                                                         *)
(* Spec          the App with its form, the adapter and the data service   *)
(* SpecStudy     the App with the state of StudyView (src/StudyView.tsx)   *)
(* SpecGateway   the functions of the data service called one by one       *)
(* SpecGenerate  generateCardDetails applied to one response               *)
(***************************************************************************)
EXTENDS Integers, Sequences, FiniteSets, Bags, TLC

\* ---------------------------------------------------------------- bounds
MaxHandlers == 3     \* async handlers the user starts in one behaviour
MaxInserts == 2      \* addCard calls that store a row, data service on its own
MaxItems == 2        \* items of a list in an AI response, adapter on its own
MaxTimers == 1       \* Next Card timeouts of StudyView pending at a time

Users == {"u1", "u2"}

\* ------------------------------------------------------------- constants
NoUser == "null"                      \* session === null / user === null
NoError == "null"                     \* error === null
NoNotes == "undefined"                \* parsedData.notes absent
PLACEHOLDER_API_KEY == "placeholder_key"
RealApiKey == "key"

ErrLoad == "Could not connect to the database. Please check your configuration and network connection."
ErrAdd == "Failed to save the new card. Please try again."
ErrSave == "Failed to save settings. Please try again."
ErrDelete == "Failed to delete the card. Reverting changes."
ErrLogout == "Failed to log out. Please try again."
ErrNotConfigured == "Gemini AI is not configured. Please set the API_KEY environment variable."
ErrInvalidJson == "Failed to generate card details from AI: Invalid JSON structure received from API."
ErrAiTransport == "Failed to generate card details from AI: upstream"

defaultSettings == [targetLanguage |-> "es", sourceLanguages |-> <<"en">>]

\* What the user can type in the form and pick in the settings view.
FrontTexts == {<<>>, <<" ">>, <<"a">>}
SettingsProposals ==
  { [targetLanguage |-> "es", sourceLanguages |-> <<"en">>],
    [targetLanguage |-> "fr", sourceLanguages |-> <<"en", "de">>] }

\* --------------------------------------------------------------- helpers
Range(q) == {q[i] : i \in DOMAIN q}

Pending == [st |-> "pending"]
Failed(msg) == [st |-> "fail", msg |-> msg]
Ok(v) == [st |-> "ok", val |-> v]

RECURSIVE FilterByTarget(_, _)
\* cards.filter(card => card.targetLanguage === lang)
FilterByTarget(q, lang) ==
  IF q = <<>> THEN <<>>
  ELSE IF Head(q).targetLanguage = lang
       THEN <<Head(q)>> \o FilterByTarget(Tail(q), lang)
       ELSE FilterByTarget(Tail(q), lang)

\* variant: the study view is handed the whole list
filteredCardsOf_unfiltered(cs, st) == cs

filteredCardsOf(cs, st) == FilterByTarget(cs, st.targetLanguage)

RECURSIVE RemoveId(_, _)
\* prevCards.filter(card => card.id !== idToDelete)
RemoveId(q, id) ==
  IF q = <<>> THEN <<>>
  ELSE IF Head(q).id # id
       THEN <<Head(q)>> \o RemoveId(Tail(q), id)
       ELSE RemoveId(Tail(q), id)

RECURSIVE OrderDesc(_)
\* .order('created_at', { ascending: false })
OrderDesc(rows) ==
  IF rows = {} THEN <<>>
  ELSE LET r == CHOOSE x \in rows : \A y \in rows : y.created_at <= x.created_at
       IN <<r>> \o OrderDesc(rows \ {r})

\* frontText.trim(): drop leading and trailing blanks
RECURSIVE TrimLeft(_)
TrimLeft(t) == IF t # <<>> /\ Head(t) = " " THEN TrimLeft(Tail(t)) ELSE t
RECURSIVE TrimRight(_)
TrimRight(t) ==
  IF t # <<>> /\ t[Len(t)] = " " THEN TrimRight(SubSeq(t, 1, Len(t) - 1)) ELSE t
Trim(t) == TrimRight(TrimLeft(t))

\* variant: frontText !== '' without trim()
isFormValid_untrimmed(frontText, targetLanguage, sourceLanguages) ==
  frontText # <<>> /\ targetLanguage # "" /\ Len(sourceLanguages) > 0

isFormValid(frontText, targetLanguage, sourceLanguages) ==
  Trim(frontText) # <<>> /\ targetLanguage # "" /\ Len(sourceLanguages) > 0

\* ------------------------------------------------- Gemini adapter (pure)
\* A parsed JSON value that is a list, and one that is not (object, string).
JsonList(items) == [isArray |-> TRUE, items |-> items]
JsonOther == [isArray |-> FALSE]

\* JS truthiness of a string property: present and not ''.
TruthyStr(item, f) == f \in DOMAIN item /\ item[f] # ""
\* JS truthiness of an array/object property: present.
TruthyObj(item, f) == f \in DOMAIN item

EmptyMap == [k \in {} |-> ""]
\* variant: an entry already in the mapping is kept
Put_keepFirst(acc, key, value) ==
  [k \in DOMAIN acc \cup {key} |-> IF k \in DOMAIN acc THEN acc[k] ELSE value]

\* acc[key] = value
Put(acc, key, value) ==
  [k \in DOMAIN acc \cup {key} |-> IF k = key THEN value ELSE acc[k]]

RECURSIVE reduceTranslations(_, _)
reduceTranslations(items, acc) ==
  IF items = <<>> THEN acc
  ELSE LET item == Head(items)
       IN reduceTranslations(Tail(items),
            IF TruthyStr(item, "languageCode") /\ TruthyStr(item, "translation")
            THEN Put(acc, item.languageCode, item.translation)
            ELSE acc)

RECURSIVE reduceExamples(_, _)
reduceExamples(items, acc) ==
  IF items = <<>> THEN acc
  ELSE LET item == Head(items)
       IN reduceExamples(Tail(items),
            IF TruthyStr(item, "languageCode") /\ TruthyObj(item, "sentences")
            THEN Put(acc, item.languageCode, item.sentences)
            ELSE acc)

\* !parsedData.f || !Array.isArray(parsedData.f)
NotAList(parsedData, f) == f \notin DOMAIN parsedData \/ ~parsedData[f].isArray

\* variant: an absent or non-list field is read as an empty list
parseResponse_lenient(response) ==
  IF response.kind = "throw" THEN [ok |-> FALSE, message |-> ErrAiTransport]
  ELSE LET parsedData == response.data
           itemsOf(f) == IF NotAList(parsedData, f) THEN <<>> ELSE parsedData[f].items
       IN [ok |-> TRUE,
           translations |-> reduceTranslations(itemsOf("translations"), EmptyMap),
           examples |-> reduceExamples(itemsOf("examples"), EmptyMap),
           notes |-> IF "notes" \in DOMAIN parsedData THEN parsedData.notes ELSE NoNotes]

\* The part of generateCardDetails after the await: response is what the
\* service call produced, [kind |-> "throw"] or [kind |-> "json", data |-> d].
\* Every throw inside the try block is rethrown by the catch as a plain Error
\* whose message starts with "Failed to generate card details from AI: ".
parseResponse(response) ==
  IF response.kind = "throw" THEN [ok |-> FALSE, message |-> ErrAiTransport]
  ELSE LET parsedData == response.data IN
       IF NotAList(parsedData, "translations") \/ NotAList(parsedData, "examples")
       THEN [ok |-> FALSE, message |-> ErrInvalidJson]
       ELSE [ok |-> TRUE,
             translations |-> reduceTranslations(parsedData.translations.items, EmptyMap),
             examples |-> reduceExamples(parsedData.examples.items, EmptyMap),
             notes |-> IF "notes" \in DOMAIN parsedData THEN parsedData.notes ELSE NoNotes]

Sentence == [sentence |-> "s", translation |-> "t"]
AiItemsFor(code) ==
  [translations |-> JsonList(<<[languageCode |-> code, translation |-> "t"]>>),
   examples |-> JsonList(<<[languageCode |-> code, sentences |-> <<Sentence>>]>>)]

\* Parsed responses without a list under translations or under examples.
MalformedData ==
  { [translations |-> AiItemsFor("en").translations],
    [translations |-> JsonOther, examples |-> AiItemsFor("en").examples] }

\* What the generative service may answer: a transport failure, a response
\* for the known language "en", a response for a language nobody asked for,
\* a response of the wrong shape.
AiResponses ==
  { [kind |-> "throw"],
    [kind |-> "json", data |-> AiItemsFor("en")],
    [kind |-> "json", data |-> AiItemsFor("it")] }
  \cup {[kind |-> "json", data |-> d] : d \in MalformedData}

\* ------------------------------------------------------------------ state
VARIABLES
  apiKey,         \* process.env.API_KEY || PLACEHOLDER_API_KEY
  authUser,       \* the user supabase.auth.getUser() answers with
  dbCards,        \* rows of table cards
  dbSettings,     \* rows of table user_settings (primary key user_id)
  nextId,         \* next id / created_at the backend assigns
  session,        \* App: useState session (the session's user)
  cards,          \* App: useState cards
  settings,       \* App: useState settings
  view,           \* App: useState view
  isLoading,      \* App: useState isLoading
  error,          \* App: useState error
  filteredCards,  \* App: the list computed by the last render
  formLoading,    \* AddCardForm: useState isLoading
  formError,      \* AddCardForm: useState error
  ops,            \* bag of async handlers waiting at an await
  started,        \* number of async handlers started so far
  synced,         \* history: a load installed the backend's list, and only
                  \* add-card and delete-card handlers have run since
  done,           \* history: which handler finished in the last step
  currentCard,    \* StudyView: useState currentCard
  isRevealed,     \* StudyView: useState isRevealed
  sinceSelect,    \* history: what StudyView did last to the card and its
                  \* reveal state: "unmounted", "selected" (a card chosen),
                  \* "reset" (a card chosen while isRevealed was true),
                  \* "noCard", "revealed", "hidden"
  isSpinning,     \* StudyView: useState isSpinning
  timers,         \* StudyView: bag of pending setTimeout callbacks, each the
                  \* cards list its selectRandomCard closure holds
  gw,             \* the last dataService call made directly and its outcome
  saved,          \* history: per user, the settings of the last saveSettings
                  \* call that succeeded
  genRun          \* a generateCardDetails run on its own: response and result

appVars == <<apiKey, authUser, dbCards, dbSettings, nextId, session, cards,
             settings, view, isLoading, error, filteredCards, formLoading,
             formError, ops, started, synced, done>>
studyVars == <<currentCard, isRevealed, sinceSelect, isSpinning, timers>>
gwVars == <<gw, saved>>
vars == <<appVars, studyVars, gwVars, genRun>>

\* renderContent: what the main area shows
renderContent(sess, loading, err, v) ==
  IF loading /\ sess # NoUser THEN "loading"
  ELSE IF err # NoError THEN "error"
  ELSE v

\* The component of view v is on screen (App returns <Auth/> without session).
Shown(v) == session # NoUser /\ renderContent(session, isLoading, error, view) = v

One(op) == SetToBag({op})
Pend == BagToSet(ops)
CanStart == started < MaxHandlers
Copies(b, op) == IF BagIn(op, b) THEN b[op] ELSE 0

\* unmounting AddCardForm: its pending handleSubmit calls lose their form
Detached(op) == IF op.kind = "ai" THEN [op EXCEPT !.detached = TRUE] ELSE op
Attached(op) == IF op.kind = "ai" THEN [op EXCEPT !.detached = FALSE] ELSE op
DetachAll(b) ==
  [o \in {Detached(op) : op \in BagToSet(b)} |->
     Copies(b, o) + (IF Attached(o) # o THEN Copies(b, Attached(o)) ELSE 0)]

\* The render after the state updates of a step: App recomputes
\* filteredCards; an AddCardForm that is no longer on screen is unmounted,
\* so its state is gone and pending handleSubmit calls update nothing.
Render(fl, fe, newOps) ==
  LET mounted == session' # NoUser
                 /\ renderContent(session', isLoading', error', view') = "add"
  IN /\ filteredCards' = filteredCardsOf(cards', settings')
     /\ formLoading' = (mounted /\ fl)
     /\ formError' = IF mounted THEN fe ELSE NoError
     /\ ops' = IF mounted THEN newOps ELSE DetachAll(newOps)

\* a row of table cards
cardRow(id, u, lang, src, code) ==
  [id |-> id, created_at |-> id, user_id |-> u, frontText |-> <<"a">>,
   targetLanguage |-> lang, sourceLanguages |-> src,
   translations |-> Put(EmptyMap, code, "t"),
   examples |-> Put(EmptyMap, code, <<Sentence>>),
   notes |-> NoNotes]

\* The backend outlives the App: rows stored by earlier runs.
InitialCards ==
  { cardRow(1, "u1", "es", <<"en">>, "en"),
    cardRow(2, "u1", "fr", <<"en", "de">>, "en") }
FirstFreeId == Cardinality(InitialCards) + 1

\* App, form and backend before anybody has signed in
AppInit(keys, rows, stored) ==
  /\ apiKey \in keys
  /\ authUser = NoUser
  /\ dbCards = rows
  /\ dbSettings = stored
  /\ nextId = Cardinality(rows) + 1
  /\ session = NoUser
  /\ cards = <<>>
  /\ settings = defaultSettings
  /\ view = "study"
  /\ isLoading = TRUE
  /\ error = NoError
  /\ filteredCards = <<>>
  /\ formLoading = FALSE
  /\ formError = NoError
  /\ ops = EmptyBag
  /\ started = 0
  /\ synced = FALSE
  /\ done = "none"

NullSettings == [isNull |-> TRUE]       \* getSettings resolving to null
NoCard == [isNull |-> TRUE]             \* currentCard === null
\* StudyView as mounted: useState(null), useState(false), useState(false)
StudyInit ==
  /\ currentCard = NoCard
  /\ isRevealed = FALSE
  /\ sinceSelect = "unmounted"
  /\ isSpinning = FALSE
  /\ timers = EmptyBag

NoCall == [fn |-> "none", user |-> NoUser]
GwInit ==
  /\ gw = NoCall
  /\ saved = [u \in Users |-> NullSettings]

NoRun == [response |-> "none"]
GenInit == genRun = NoRun

Init ==
  /\ AppInit({RealApiKey, PLACEHOLDER_API_KEY}, InitialCards, {})
  /\ StudyInit
  /\ GwInit
  /\ GenInit

\* ------------------------------------------------------- session and load
LoadOp == [kind |-> "load", cardsRes |-> Pending, settingsRes |-> Pending]

\* Auth.handleSignIn succeeds; the auth listener calls setSession and the
\* session effect calls loadData, which runs up to its await.
SignIn(u) ==
  /\ session = NoUser
  /\ CanStart
  /\ authUser' = u
  /\ session' = u
  /\ isLoading' = TRUE
  /\ error' = NoError
  /\ done' = "none"
  /\ started' = started + 1
  /\ synced' = FALSE
  /\ UNCHANGED <<apiKey, dbCards, dbSettings, nextId, cards, settings, view>>
  /\ Render(formLoading, formError, ops (+) One(LoadOp))

\* The auth collaborator hands the App a session object again (getSession
\* result, token refresh): setSession with a new object, the effect reloads.
AuthNotify ==
  /\ session # NoUser
  /\ authUser = session
  /\ CanStart
  /\ isLoading' = TRUE
  /\ error' = NoError
  /\ done' = "none"
  /\ started' = started + 1
  /\ synced' = FALSE
  /\ UNCHANGED <<apiKey, authUser, dbCards, dbSettings, nextId, session, cards,
                 settings, view>>
  /\ Render(formLoading, formError, ops (+) One(LoadOp))

\* dataService.getCards on the backend; up: the query is answered, not up:
\* the client reports an error
getCardsWhen(up) ==
  IF authUser = NoUser THEN Ok(<<>>)
  ELSE IF ~up THEN Failed("fetching cards")
  ELSE Ok(OrderDesc({r \in dbCards : r.user_id = authUser}))

getCards == {getCardsWhen(up) : up \in BOOLEAN}

\* { data, error } of select('targetLanguage, sourceLanguages')
\* .eq('user_id', user.id).single(): error code PGRST116 unless exactly one
\* row matches
singleSettings(up) ==
  LET rows == {r \in dbSettings : r.user_id = authUser}
  IN IF ~up THEN [data |-> NullSettings, error |-> "other"]
     ELSE IF Cardinality(rows) # 1
          THEN [data |-> NullSettings, error |-> "PGRST116"]
          ELSE LET r == CHOOSE x \in rows : TRUE
               IN [data |-> [targetLanguage |-> r.targetLanguage,
                             sourceLanguages |-> r.sourceLanguages],
                   error |-> NoError]

\* variant: every error of the query is swallowed
getSettingsWhen_swallowAll(up) ==
  IF authUser = NoUser THEN Ok(NullSettings) ELSE Ok(singleSettings(up).data)

\* dataService.getSettings on the backend
getSettingsWhen(up) ==
  IF authUser = NoUser THEN Ok(NullSettings)
  ELSE LET resp == singleSettings(up)
       IN IF resp.error # NoError /\ resp.error # "PGRST116"
          THEN Failed("fetching settings")
          ELSE Ok(resp.data)

getSettings == {getSettingsWhen(up) : up \in BOOLEAN}

\* The two fetches of Promise.all run on the backend, in any order.
ServerGetCards(op) ==
  /\ op.kind = "load"
  /\ op.cardsRes = Pending
  /\ \E r \in getCards :
       ops' = (ops (-) One(op)) (+) One([op EXCEPT !.cardsRes = r])
  /\ UNCHANGED <<started, synced>>
  /\ done' = "none"
  /\ UNCHANGED <<apiKey, authUser, dbCards, dbSettings, nextId, session, cards,
                 settings, view, isLoading, error, filteredCards, formLoading,
                 formError>>

ServerGetSettings(op) ==
  /\ op.kind = "load"
  /\ op.settingsRes = Pending
  /\ \E r \in getSettings :
       ops' = (ops (-) One(op)) (+) One([op EXCEPT !.settingsRes = r])
  /\ UNCHANGED <<started, synced>>
  /\ done' = "none"
  /\ UNCHANGED <<apiKey, authUser, dbCards, dbSettings, nextId, session, cards,
                 settings, view, isLoading, error, filteredCards, formLoading,
                 formError>>

\* Promise.all: fulfilled when both are, rejected as soon as one is.
LoadFulfilled(op) == op.cardsRes.st = "ok" /\ op.settingsRes.st = "ok"
LoadRejected(op) == op.cardsRes.st = "fail" \/ op.settingsRes.st = "fail"

\* variant: the fetched cards are committed before the settings fetch is
\* known to have succeeded
loadDataCommit_partial(op) ==
  /\ cards' = IF op.cardsRes.st = "ok" THEN op.cardsRes.val ELSE cards
  /\ settings' = IF LoadFulfilled(op) /\ op.settingsRes.val # NullSettings
                 THEN op.settingsRes.val
                 ELSE IF LoadFulfilled(op) THEN defaultSettings ELSE settings
  /\ error' = IF LoadFulfilled(op) THEN error ELSE ErrLoad

\* loadData after the await: try body and catch
loadDataCommit(op) ==
  IF LoadFulfilled(op)
  THEN /\ cards' = op.cardsRes.val
       /\ settings' = IF op.settingsRes.val = NullSettings
                      THEN defaultSettings ELSE op.settingsRes.val
       /\ error' = error
  ELSE /\ cards' = cards
       /\ settings' = settings
       /\ error' = ErrLoad

\* loadData after the await, with its finally
LoadReply(op) ==
  /\ op.kind = "load"
  /\ LoadFulfilled(op) \/ LoadRejected(op)
  /\ loadDataCommit(op)
  /\ isLoading' = FALSE
  /\ UNCHANGED started
  /\ synced' = (/\ LoadFulfilled(op)
                /\ ops = One(op)
                /\ authUser = session
                /\ Range(cards') = {r \in dbCards : r.user_id = session})
  /\ done' = IF LoadFulfilled(op) THEN "loadOk" ELSE "loadFail"
  /\ UNCHANGED <<apiKey, authUser, dbCards, dbSettings, nextId, session, view>>
  /\ Render(formLoading, formError, ops (-) One(op))

\* handleLogout up to its await
LogoutStart ==
  /\ session # NoUser
  /\ CanStart
  /\ ops' = ops (+) One([kind |-> "logout", res |-> Pending])
  /\ done' = "none"
  /\ started' = started + 1
  /\ synced' = FALSE
  /\ UNCHANGED <<apiKey, authUser, dbCards, dbSettings, nextId, session, cards,
                 settings, view, isLoading, error, filteredCards, formLoading,
                 formError>>

\* supabase.auth.signOut on the backend
ServerSignOut(op) ==
  /\ op.kind = "logout"
  /\ op.res = Pending
  /\ \/ /\ authUser' = NoUser
        /\ ops' = (ops (-) One(op)) (+) One([op EXCEPT !.res = Ok(NoUser)])
     \/ /\ authUser' = authUser
        /\ ops' = (ops (-) One(op)) (+) One([op EXCEPT !.res = Failed("signOut")])
  /\ UNCHANGED <<started, synced>>
  /\ done' = "none"
  /\ UNCHANGED <<apiKey, dbCards, dbSettings, nextId, session, cards, settings,
                 view, isLoading, error, filteredCards, formLoading, formError>>

\* handleLogout after the await; on success the auth listener has called
\* setSession(null) and nothing else is reset.
LogoutReply(op) ==
  /\ op.kind = "logout"
  /\ op.res # Pending
  /\ IF op.res.st = "ok"
     THEN session' = NoUser /\ error' = error
     ELSE session' = session /\ error' = ErrLogout
  /\ UNCHANGED <<started, synced>>
  /\ done' = IF op.res.st = "ok" THEN "logoutOk" ELSE "logoutFail"
  /\ UNCHANGED <<apiKey, authUser, dbCards, dbSettings, nextId, cards, settings,
                 view, isLoading>>
  /\ Render(formLoading, formError, ops (-) One(op))

\* NavButton onClick: setView(v)
SetView(v) ==
  /\ session # NoUser
  /\ v # view
  /\ view' = v
  /\ UNCHANGED <<started, synced>>
  /\ done' = "none"
  /\ UNCHANGED <<apiKey, authUser, dbCards, dbSettings, nextId, session, cards,
                 settings, isLoading, error>>
  /\ Render(formLoading, formError, ops)

\* --------------------------------------------------------------- add card
\* variant: the request is sent whatever the key is
requestDetails_unchecked(key) == Pending

\* generateCardDetails up to its await: it throws at once when no API key is
\* configured, else the generateContent request is on its way
requestDetails(key) ==
  IF key = PLACEHOLDER_API_KEY THEN Failed(ErrNotConfigured) ELSE Pending

\* AddCardForm.handleSubmit called while the form is not valid: it returns
\* at once
SubmitIgnored(frontText) ==
  /\ Shown("add")
  /\ ~isFormValid(frontText, settings.targetLanguage, settings.sourceLanguages)
  /\ done' = "submitIgnored"
  /\ UNCHANGED <<apiKey, authUser, dbCards, dbSettings, nextId, session, cards,
                 settings, view, isLoading, error, filteredCards, formLoading,
                 formError, ops, started, synced>>

\* AddCardForm.handleSubmit up to its await
Submit(frontText) ==
  /\ Shown("add")
  /\ ~formLoading
  /\ isFormValid(frontText, settings.targetLanguage, settings.sourceLanguages)
  /\ CanStart
  /\ done' = "none"
  /\ started' = started + 1
  /\ UNCHANGED synced
  /\ UNCHANGED <<apiKey, authUser, dbCards, dbSettings, nextId, session, cards,
                 settings, view, isLoading, error>>
  /\ Render(TRUE, NoError,
       ops (+) One(
          [kind |-> "ai",
           req |-> [frontText |-> frontText,
                    targetLanguage |-> settings.targetLanguage,
                    sourceLanguages |-> settings.sourceLanguages],
           res |-> requestDetails(apiKey),
           detached |-> FALSE]))

\* this.ai.models.generateContent answers
ServerAi(op) ==
  /\ op.kind = "ai"
  /\ op.res = Pending
  /\ \E r \in AiResponses :
       ops' = (ops (-) One(op)) (+) One([op EXCEPT !.res = Ok(r)])
  /\ UNCHANGED <<started, synced>>
  /\ done' = "none"
  /\ UNCHANGED <<apiKey, authUser, dbCards, dbSettings, nextId, session, cards,
                 settings, view, isLoading, error, filteredCards, formLoading,
                 formError>>

\* generateCardDetails: what handleSubmit's await yields
generateCardDetails(op) ==
  IF op.res.st = "fail" THEN [ok |-> FALSE, message |-> op.res.msg]
  ELSE parseResponse(op.res.val)

\* const newCard = { frontText, targetLanguage, sourceLanguages, ... }
newCardOf(req, gen) ==
  [frontText |-> req.frontText,
   targetLanguage |-> req.targetLanguage,
   sourceLanguages |-> req.sourceLanguages,
   translations |-> gen.translations,
   examples |-> gen.examples,
   notes |-> gen.notes]

\* handleSubmit after the await.  On success it calls onAddCard(newCard)
\* without awaiting it: handleAddCard runs up to its own await and the form
\* is released at once.
AiReply(op) ==
  /\ op.kind = "ai"
  /\ op.res # Pending
  /\ LET gen == generateCardDetails(op)
         fe == IF op.detached \/ gen.ok THEN formError ELSE gen.message
         fl == IF op.detached THEN formLoading ELSE FALSE
         rest == ops (-) One(op)
     IN /\ UNCHANGED <<started, synced>>
        /\ done' = IF gen.ok THEN "aiOk" ELSE "aiFail"
        /\ UNCHANGED <<apiKey, authUser, dbCards, dbSettings, nextId, session,
                       cards, settings, view, isLoading, error>>
        /\ Render(fl, fe,
             IF gen.ok
             THEN rest (+) One([kind |-> "create",
                                card |-> newCardOf(op.req, gen),
                                res |-> Pending])
             ELSE rest)

\* the row insert([cardWithUser]).select().single() stores and returns
insertedRow(card, u, id) ==
  [id |-> id, created_at |-> id, user_id |-> u,
   frontText |-> card.frontText,
   targetLanguage |-> card.targetLanguage,
   sourceLanguages |-> card.sourceLanguages,
   translations |-> card.translations,
   examples |-> card.examples,
   notes |-> card.notes]

\* getUser: throws without a user
ErrAuth == "User not authenticated."

\* variant: the card is inserted without asking for the user
addCard_anonymous(card, up) ==
  IF ~up
  THEN [res |-> Failed("adding card"), rows |-> dbCards, next |-> nextId]
  ELSE LET row == insertedRow(card, authUser, nextId)
       IN [res |-> Ok(row), rows |-> dbCards \cup {row}, next |-> nextId + 1]

\* dataService.addCard: getUser, insert, select, single.  res is what the
\* call resolves or rejects with, rows and next the table afterwards.
addCard(card, up) ==
  IF authUser = NoUser
  THEN [res |-> Failed(ErrAuth), rows |-> dbCards, next |-> nextId]
  ELSE IF ~up
  THEN [res |-> Failed("adding card"), rows |-> dbCards, next |-> nextId]
  ELSE LET row == insertedRow(card, authUser, nextId)
       IN [res |-> Ok(row), rows |-> dbCards \cup {row}, next |-> nextId + 1]

\* dataService.addCard runs on the backend
ServerCreate(op) ==
  /\ op.kind = "create"
  /\ op.res = Pending
  /\ \E up \in BOOLEAN :
       LET o == addCard(op.card, up)
       IN /\ ops' = (ops (-) One(op)) (+) One([op EXCEPT !.res = o.res])
          /\ dbCards' = o.rows
          /\ nextId' = o.next
  /\ UNCHANGED <<started, synced>>
  /\ done' = "none"
  /\ UNCHANGED <<apiKey, authUser, dbSettings, session, cards, settings, view,
                 isLoading, error, filteredCards, formLoading, formError>>

\* variant: the saved card is put last
prepend_last(savedCard, prevCards) == Append(prevCards, savedCard)

\* setCards(prevCards => [savedCard, ...prevCards])
prepend(savedCard, prevCards) == <<savedCard>> \o prevCards

\* handleAddCard after the await
AddReply(op) ==
  /\ op.kind = "create"
  /\ op.res # Pending
  /\ IF op.res.st = "ok"
     THEN /\ cards' = prepend(op.res.val, cards)
          /\ view' = "study"
          /\ error' = error
     ELSE /\ error' = ErrAdd
          /\ UNCHANGED <<cards, view>>
  /\ UNCHANGED <<started, synced>>
  /\ done' = IF op.res.st = "ok" THEN "addOk" ELSE "addFail"
  /\ UNCHANGED <<apiKey, authUser, dbCards, dbSettings, nextId, session,
                 settings, isLoading>>
  /\ Render(formLoading, formError, ops (-) One(op))

\* ------------------------------------------------------------ delete card
\* variant: the card is cut out at its index, prevCards.splice(indexOf(id), 1),
\* which cuts the last card when the id is not in the list
removeCard_splice(prevCards, idToDelete) ==
  IF \E i \in DOMAIN prevCards : prevCards[i].id = idToDelete
  THEN RemoveId(prevCards, idToDelete)
  ELSE SubSeq(prevCards, 1, Len(prevCards) - 1)

\* the updater of setCards in handleDeleteCard
removeCard(prevCards, idToDelete) == RemoveId(prevCards, idToDelete)

\* handleDeleteCard up to its await
handleDeleteCard(idToDelete) ==
  /\ CanStart
  /\ cards' = removeCard(cards, idToDelete)
  /\ done' = "none"
  /\ started' = started + 1
  /\ UNCHANGED synced
  /\ UNCHANGED <<apiKey, authUser, dbCards, dbSettings, nextId, session,
                 settings, view, isLoading, error>>
  /\ Render(formLoading, formError,
       ops (+) One([kind |-> "delete", id |-> idToDelete,
                    originalCards |-> cards, res |-> Pending]))

\* StudyView.handleDelete on the card it shows (a random member of the list
\* it was given), confirmed, then handleDeleteCard up to its await.
DeleteStart(i) ==
  /\ Shown("study")
  /\ i \in DOMAIN filteredCards
  /\ handleDeleteCard(filteredCards[i].id)

\* variant: delete().match({ id }), the owner is not part of the match
matchDelete_anyOwner(rows, id, u) == {r \in rows : r.id # id}

\* delete().match({ id: id, user_id: user.id }): the rows left in the table
matchDelete(rows, id, u) == {r \in rows : ~(r.id = id /\ r.user_id = u)}

\* dataService.deleteCard: getUser, delete, match
deleteCard(id, up) ==
  IF authUser = NoUser THEN [res |-> Failed(ErrAuth), rows |-> dbCards]
  ELSE IF ~up THEN [res |-> Failed("deleting card"), rows |-> dbCards]
  ELSE [res |-> Ok(NoUser), rows |-> matchDelete(dbCards, id, authUser)]

\* dataService.deleteCard runs on the backend
ServerDelete(op) ==
  /\ op.kind = "delete"
  /\ op.res = Pending
  /\ \E up \in BOOLEAN :
       LET o == deleteCard(op.id, up)
       IN /\ ops' = (ops (-) One(op)) (+) One([op EXCEPT !.res = o.res])
          /\ dbCards' = o.rows
  /\ UNCHANGED <<started, synced>>
  /\ done' = "none"
  /\ UNCHANGED <<apiKey, authUser, dbSettings, nextId, session, cards, settings,
                 view, isLoading, error, filteredCards, formLoading, formError>>

\* variant: the catch block restores the list without the card
revert_withoutCard(op) == RemoveId(op.originalCards, op.id)

\* the catch block of handleDeleteCard: setCards(originalCards)
revert(op) == op.originalCards

\* handleDeleteCard after the await
DeleteReply(op) ==
  /\ op.kind = "delete"
  /\ op.res # Pending
  /\ IF op.res.st = "ok"
     THEN UNCHANGED <<cards, error>>
     ELSE /\ error' = ErrDelete
          /\ cards' = revert(op)
  /\ UNCHANGED <<started, synced>>
  /\ done' = IF op.res.st = "ok" THEN "deleteOk" ELSE "deleteFail"
  /\ UNCHANGED <<apiKey, authUser, dbCards, dbSettings, nextId, session,
                 settings, view, isLoading>>
  /\ Render(formLoading, formError, ops (-) One(op))

\* ---------------------------------------------------------- save settings
\* SettingsView.handleSave: onSave(localSettings), handleSaveSettings up to
\* its await.  The button is enabled after a change, for a valid selection.
SaveStart(newSettings) ==
  /\ Shown("settings")
  /\ newSettings.targetLanguage # ""
  /\ Len(newSettings.sourceLanguages) # 0
  /\ CanStart
  /\ ops' = ops (+) One([kind |-> "save", newSettings |-> newSettings,
                         res |-> Pending])
  /\ done' = "none"
  /\ started' = started + 1
  /\ synced' = FALSE
  /\ UNCHANGED <<apiKey, authUser, dbCards, dbSettings, nextId, session, cards,
                 settings, view, isLoading, error, filteredCards, formLoading,
                 formError>>

\* the row upsert(settingsWithUser).select().single() stores and returns
settingsWithUser(st, u) ==
  [targetLanguage |-> st.targetLanguage,
   sourceLanguages |-> st.sourceLanguages,
   user_id |-> u]

\* variant: the table keeps a single row under a fixed key
upsert_singleRow(rows, row) == {row}

\* upsert(settingsWithUser) on a table whose primary key is user_id: the
\* row replaces the one with the same key
upsert(rows, row) == {r \in rows : r.user_id # row.user_id} \cup {row}

\* dataService.saveSettings: getUser, upsert, select, single
saveSettings(st, up) ==
  IF authUser = NoUser THEN [res |-> Failed(ErrAuth), rows |-> dbSettings]
  ELSE IF ~up THEN [res |-> Failed("saving settings"), rows |-> dbSettings]
  ELSE LET row == settingsWithUser(st, authUser)
       IN [res |-> Ok(row), rows |-> upsert(dbSettings, row)]

\* dataService.saveSettings runs on the backend
ServerSave(op) ==
  /\ op.kind = "save"
  /\ op.res = Pending
  /\ \E up \in BOOLEAN :
       LET o == saveSettings(op.newSettings, up)
       IN /\ ops' = (ops (-) One(op)) (+) One([op EXCEPT !.res = o.res])
          /\ dbSettings' = o.rows
  /\ UNCHANGED <<started, synced>>
  /\ done' = "none"
  /\ UNCHANGED <<apiKey, authUser, dbCards, nextId, session, cards, settings,
                 view, isLoading, error, filteredCards, formLoading, formError>>

\* variant: setSettings(newSettings)
savedSettingsOf_proposed(op) == op.newSettings

\* setSettings(savedSettings)
savedSettingsOf(op) == op.res.val

\* handleSaveSettings after the await
SaveReply(op) ==
  /\ op.kind = "save"
  /\ op.res # Pending
  /\ IF op.res.st = "ok"
     THEN /\ settings' = savedSettingsOf(op)
          /\ view' = "study"
          /\ error' = error
     ELSE /\ error' = ErrSave
          /\ UNCHANGED <<settings, view>>
  /\ UNCHANGED <<started, synced>>
  /\ done' = IF op.res.st = "ok" THEN "saveOk" ELSE "saveFail"
  /\ UNCHANGED <<apiKey, authUser, dbCards, dbSettings, nextId, session, cards,
                 isLoading>>
  /\ Render(formLoading, formError, ops (-) One(op))

\* In Spec the App runs without a model of what StudyView holds: the card
\* it shows is drawn when Delete is clicked (DeleteStart).
AppAlone == UNCHANGED <<studyVars, gwVars, genRun>>

Next ==
  \/ \E u \in Users : SignIn(u) /\ AppAlone
  \/ AuthNotify /\ AppAlone
  \/ \E op \in Pend : ServerGetCards(op) /\ AppAlone
  \/ \E op \in Pend : ServerGetSettings(op) /\ AppAlone
  \/ \E op \in Pend : LoadReply(op) /\ AppAlone
  \/ LogoutStart /\ AppAlone
  \/ \E op \in Pend : ServerSignOut(op) /\ AppAlone
  \/ \E op \in Pend : LogoutReply(op) /\ AppAlone
  \/ \E v \in {"study", "add", "settings"} : SetView(v) /\ AppAlone
  \/ \E t \in FrontTexts : SubmitIgnored(t) /\ AppAlone
  \/ \E t \in FrontTexts : Submit(t) /\ AppAlone
  \/ \E op \in Pend : ServerAi(op) /\ AppAlone
  \/ \E op \in Pend : AiReply(op) /\ AppAlone
  \/ \E op \in Pend : ServerCreate(op) /\ AppAlone
  \/ \E op \in Pend : AddReply(op) /\ AppAlone
  \/ \E i \in 1..(Cardinality(InitialCards) + MaxHandlers) : DeleteStart(i) /\ AppAlone
  \/ \E op \in Pend : ServerDelete(op) /\ AppAlone
  \/ \E op \in Pend : DeleteReply(op) /\ AppAlone
  \/ \E p \in SettingsProposals : SaveStart(p) /\ AppAlone
  \/ \E op \in Pend : ServerSave(op) /\ AppAlone
  \/ \E op \in Pend : SaveReply(op) /\ AppAlone

Spec == Init /\ [][Next]_vars

\* ================================================================ claims
\* the reply handler of op ran in this step
Replied(op) ==
  /\ Copies(ops', op) < Copies(ops, op)
  /\ BagCardinality(ops') < BagCardinality(ops)

\* rows of the session's user in table cards
BackendCards == {r \in dbCards : r.user_id = session}

\* createCard, deleteCard and saveSettings calls whose reply is outstanding
Mutations == {op \in Pend : op.kind \in {"create", "delete", "save"}}
RECURSIVE CountAll(_)
CountAll(S) ==
  IF S = {} THEN 0
  ELSE LET op == CHOOSE x \in S : TRUE IN ops[op] + CountAll(S \ {op})

\* C1: a handleDeleteCard call whose backend delete fails ends with the
\* in-memory list equal to the list it started from (same cards, same
\* order) and with the error message set.
C1_DeleteRollbackExact ==
  [][done' = "deleteFail" =>
       /\ \E op \in Pend : /\ op.kind = "delete"
                           /\ op.res.st = "fail"
                           /\ Replied(op)
                           /\ cards' = op.originalCards
       /\ error' = ErrDelete]_vars

C1_Witness ==
  /\ done = "deleteFail"
  /\ error = ErrDelete
  /\ Len(cards) = Cardinality(InitialCards)

\* C2: after a load that installed the backend's list, and whatever
\* add-card and delete-card handlers ran since, the in-memory list holds
\* exactly the backend's cards of the user once no call is in flight.
C2_NoDivergence ==
  (synced /\ ops = EmptyBag /\ session # NoUser) => Range(cards) = BackendCards

\* C3: a card enters the in-memory list only when createCard has succeeded
\* for it, and then at the head; a failed generation or a failed createCard
\* leaves the list as it was.
C3_AddAfterCreate ==
  [][/\ done' = "addOk" =>
          \E op \in Pend : /\ op.kind = "create"
                           /\ op.res.st = "ok"
                           /\ Replied(op)
                           /\ op.res.val.id < nextId
                           /\ cards' = <<op.res.val>> \o cards
     /\ done' \in {"addFail", "aiFail"} => cards' = cards
     /\ done' = "aiFail" => \A op \in BagToSet(ops') : op.kind = "create" => BagIn(op, ops)
     /\ done' \notin {"addOk", "loadOk", "deleteFail"} =>
          Range(cards') \subseteq Range(cards)]_vars

C3_Witness ==
  /\ done = "addOk"
  /\ Len(cards) = Cardinality(InitialCards) + 1
  /\ cards[1].id = FirstFreeId

\* C4: loadData commits the fetched cards and settings only when both
\* fetches succeeded; when one failed, cards and settings keep their values
\* and the error message is set.
C4_LoadAllOrNothing ==
  [][\A op \in Pend :
       (op.kind = "load" /\ Replied(op)) =>
         IF op.cardsRes.st = "ok" /\ op.settingsRes.st = "ok"
         THEN /\ cards' = op.cardsRes.val
              /\ settings' = IF op.settingsRes.val = NullSettings
                             THEN defaultSettings ELSE op.settingsRes.val
         ELSE /\ cards' = cards
              /\ settings' = settings
              /\ error' = ErrLoad]_vars

C4_Witness ==
  /\ done = "loadFail"
  /\ error = ErrLoad
  /\ cards # <<>>
  /\ settings # defaultSettings

\* C5: the in-memory cards belong to the current session: none without a
\* session, and none of another user once the session's load is over.
C5_SessionIsolation ==
  \A i \in DOMAIN cards :
    session # NoUser /\ (isLoading \/ cards[i].user_id = session)

\* C6: an error set by a failed add, delete or save does not keep the user
\* from the add, study and settings views, and a handler that succeeds
\* leaves no error behind.
C6_ErrorTransient ==
  /\ (session # NoUser /\ ~isLoading /\ error \in {ErrAdd, ErrDelete, ErrSave})
        => renderContent(session, isLoading, error, view) \in {"study", "add", "settings"}
  /\ done \in {"addOk", "deleteOk", "saveOk"} => error = NoError

\* C7: at most one createCard, deleteCard or saveSettings call is in flight.
C7_OneMutation == CountAll(Mutations) <= 1

\* C8: a successful saveSettings makes the in-memory settings the value the
\* backend returned; a failed one leaves them alone and sets the error.
C8_SaveSettings ==
  [][/\ done' = "saveOk" =>
          \E op \in Pend : /\ op.kind = "save"
                           /\ op.res.st = "ok"
                           /\ Replied(op)
                           /\ settings' = op.res.val
     /\ done' = "saveFail" => (settings' = settings /\ error' = ErrSave)]_vars

C8_Witness ==
  /\ done = "saveOk"
  /\ settings \in dbSettings
  /\ settings.targetLanguage = "fr"

\* C9: the list handed to the study view is the in-memory cards whose
\* targetLanguage is the settings' targetLanguage, in their order.
C9_StudyFilter ==
  LET eligible == {i \in DOMAIN cards :
                     cards[i].targetLanguage = settings.targetLanguage}
  IN /\ Len(filteredCards) = Cardinality(eligible)
     /\ \A k \in DOMAIN filteredCards :
          \E i \in eligible : /\ Cardinality({j \in eligible : j < i}) = k - 1
                              /\ filteredCards[k] = cards[i]

C9_Witness ==
  /\ done = "saveOk"
  /\ Len(cards) = 2
  /\ Len(filteredCards) = 1
  /\ filteredCards[1].targetLanguage = "fr"

\* C10: the keys of translations and of examples of every stored card are
\* among its sourceLanguages.
C10_KeysWithinSources ==
  \A r \in dbCards :
    /\ DOMAIN r.translations \subseteq Range(r.sourceLanguages)
    /\ DOMAIN r.examples \subseteq Range(r.sourceLanguages)

\* the service answered op's request with JSON that fails the shape test
Malformed(op) ==
  /\ op.kind = "ai"
  /\ op.res.st = "ok"
  /\ op.res.val.kind = "json"
  /\ (NotAList(op.res.val.data, "translations")
      \/ NotAList(op.res.val.data, "examples"))

\* handleSubmit resumed after its await for op in this step
AiReplied(op) ==
  /\ done' \in {"aiOk", "aiFail"}
  /\ Copies(ops', op) < Copies(ops, op)

C12_NoKeyNoCall ==
  apiKey = PLACEHOLDER_API_KEY =>
    /\ \A op \in Pend :
         /\ op.kind = "ai" => op.res = Failed(ErrNotConfigured)
         /\ op.kind # "create"
    /\ done \notin {"aiOk", "addOk", "addFail"}
    /\ nextId = FirstFreeId
    /\ dbCards \subseteq InitialCards

\* a submission has failed with the not-configured message
C12_Witness ==
  apiKey = PLACEHOLDER_API_KEY /\ done = "aiFail" /\ formError = ErrNotConfigured

\* ==================================================== the data service alone
\* The functions of dataService called directly, one call per step, by
\* whoever holds the client: any user or nobody is signed in at the backend,
\* any id, card and settings are passed.
uiVars == <<apiKey, session, cards, settings, view, isLoading, error,
            filteredCards, formLoading, formError, ops, started, synced, done>>

\* a card as handleSubmit builds it
SomeCard ==
  newCardOf([frontText |-> <<"a">>, targetLanguage |-> "es",
             sourceLanguages |-> <<"en">>],
            parseResponse([kind |-> "json", data |-> AiItemsFor("en")]))

\* supabase.auth: somebody signs in, or the session ends
AuthChange(u) ==
  /\ u # authUser
  /\ authUser' = u
  /\ gw' = NoCall
  /\ UNCHANGED <<dbCards, dbSettings, nextId, saved, uiVars, studyVars, genRun>>

CallGetCards(up) ==
  /\ gw' = [fn |-> "getCards", user |-> authUser, up |-> up,
            res |-> getCardsWhen(up)]
  /\ UNCHANGED <<authUser, dbCards, dbSettings, nextId, saved, uiVars,
                 studyVars, genRun>>

CallGetSettings(up) ==
  /\ gw' = [fn |-> "getSettings", user |-> authUser, up |-> up,
            res |-> getSettingsWhen(up)]
  /\ UNCHANGED <<authUser, dbCards, dbSettings, nextId, saved, uiVars,
                 studyVars, genRun>>

CallAddCard(card, up) ==
  /\ nextId < FirstFreeId + MaxInserts
  /\ LET o == addCard(card, up)
     IN /\ gw' = [fn |-> "addCard", user |-> authUser, up |-> up, res |-> o.res]
        /\ dbCards' = o.rows
        /\ nextId' = o.next
  /\ UNCHANGED <<authUser, dbSettings, saved, uiVars, studyVars, genRun>>

CallDeleteCard(id, up) ==
  /\ LET o == deleteCard(id, up)
     IN /\ gw' = [fn |-> "deleteCard", user |-> authUser, up |-> up,
                  id |-> id, res |-> o.res]
        /\ dbCards' = o.rows
  /\ UNCHANGED <<authUser, dbSettings, nextId, saved, uiVars, studyVars, genRun>>

CallSaveSettings(st, up) ==
  /\ LET o == saveSettings(st, up)
     IN /\ gw' = [fn |-> "saveSettings", user |-> authUser, up |-> up,
                  st |-> st, res |-> o.res]
        /\ dbSettings' = o.rows
        /\ saved' = IF o.res.st = "ok" THEN [saved EXCEPT ![authUser] = st]
                    ELSE saved
  /\ UNCHANGED <<authUser, dbCards, nextId, uiVars, studyVars, genRun>>

NextGateway ==
  \/ \E u \in Users \cup {NoUser} : AuthChange(u)
  \/ \E up \in BOOLEAN : CallGetCards(up)
  \/ \E up \in BOOLEAN : CallGetSettings(up)
  \/ \E up \in BOOLEAN : CallAddCard(SomeCard, up)
  \/ \E id \in 1..(FirstFreeId + MaxInserts), up \in BOOLEAN :
       CallDeleteCard(id, up)
  \/ \E st \in SettingsProposals, up \in BOOLEAN : CallSaveSettings(st, up)

SpecGateway == Init /\ [][NextGateway]_vars

\* C13: called while nobody is signed in, getCards resolves to the empty
\* list and getSettings to null, and addCard, deleteCard and saveSettings
\* reject with "User not authenticated." and leave both tables as they were.
C13_NoSession ==
  [][gw'.user = NoUser =>
       /\ gw'.fn = "getCards" => gw'.res = Ok(<<>>)
       /\ gw'.fn = "getSettings" => gw'.res = Ok(NullSettings)
       /\ gw'.fn \in {"addCard", "deleteCard", "saveSettings"} =>
            /\ gw'.res = Failed(ErrAuth)
            /\ dbCards' = dbCards
            /\ dbSettings' = dbSettings
            /\ nextId' = nextId]_vars

\* a write was attempted without a session while the tables hold rows
C13_Witness ==
  /\ gw.fn \in {"addCard", "deleteCard", "saveSettings"}
  /\ gw.user = NoUser
  /\ gw.res = Failed(ErrAuth)
  /\ dbCards # {}
  /\ dbSettings # {}

\* C14: a deleteCard(id) call removes nothing but the row whose id is id and
\* whose user_id is the caller's, and removes that row when the call
\* succeeds; it touches no settings row; with a user signed in and the
\* backend answering it succeeds also when no row or only a row of another
\* user has that id.
C14_DeleteFrame ==
  [][gw'.fn = "deleteCard" =>
       /\ dbCards' \subseteq dbCards
       /\ Cardinality(dbCards \ dbCards') <= 1
       /\ \A r \in dbCards \ dbCards' : r.id = gw'.id /\ r.user_id = gw'.user
       /\ dbSettings' = dbSettings
       /\ nextId' = nextId
       /\ (gw'.user # NoUser /\ gw'.up => gw'.res.st = "ok")
       /\ (gw'.res.st = "ok" =>
             ~\E r \in dbCards' : r.id = gw'.id /\ r.user_id = gw'.user)]_vars

\* deleteCard succeeded on the id of another user's row, which is still stored
C14_Witness ==
  /\ gw.fn = "deleteCard"
  /\ gw.res.st = "ok"
  /\ \E r \in dbCards : r.id = gw.id /\ r.user_id # gw.user

\* C16: a getSettings call resolves to null when nobody is signed in and
\* when the backend answers and holds no settings row of the caller, and in
\* no other case; when the query fails it rejects, and when the row exists
\* and the backend answers it resolves to settings.
C16_NullIffNoRow ==
  [][gw'.fn = "getSettings" =>
       LET hasRow == \E r \in dbSettings : r.user_id = gw'.user
       IN /\ gw'.res = Ok(NullSettings) => gw'.user = NoUser \/ ~hasRow
          /\ gw'.user = NoUser => gw'.res = Ok(NullSettings)
          /\ gw'.user # NoUser /\ gw'.up /\ ~hasRow => gw'.res = Ok(NullSettings)
          /\ gw'.user # NoUser /\ ~gw'.up => gw'.res.st = "fail"
          /\ gw'.user # NoUser /\ gw'.up /\ hasRow =>
               gw'.res.st = "ok" /\ gw'.res.val # NullSettings]_vars

\* a signed-in user without a row got null while another user has a row
C16_Witness ==
  /\ gw.fn = "getSettings"
  /\ gw.user # NoUser
  /\ gw.up
  /\ gw.res = Ok(NullSettings)
  /\ dbSettings # {}

\* C17: a getSettings call of user u that succeeds after u's saveSettings(S)
\* succeeded resolves to S, with the same targetLanguage and the same
\* sourceLanguages in the same order, as long as u has not saved again; a
\* saveSettings call leaves the rows of other users as they are; the table
\* holds at most one row per user.
C17_SettingsRoundTrip ==
  [][/\ gw'.fn = "getSettings" /\ gw'.user # NoUser /\ gw'.up
        /\ saved'[gw'.user] # NullSettings =>
          /\ gw'.res.st = "ok"
          /\ gw'.res.val.targetLanguage = saved'[gw'.user].targetLanguage
          /\ gw'.res.val.sourceLanguages = saved'[gw'.user].sourceLanguages
          /\ gw'.res.val = saved'[gw'.user]
     /\ gw'.fn = "saveSettings" =>
          {r \in dbSettings' : r.user_id # gw'.user}
            = {r \in dbSettings : r.user_id # gw'.user}
     /\ \A u \in Users :
          Cardinality({r \in dbSettings' : r.user_id = u}) <= 1]_vars

\* u read back its settings after another user saved different ones later
C17_Witness ==
  /\ gw.fn = "getSettings"
  /\ gw.user # NoUser
  /\ gw.res = Ok(saved[gw.user])
  /\ \E v \in Users \ {gw.user} :
       saved[v] # NullSettings /\ saved[v] # saved[gw.user]

\* C18: the cards list of the App is ordered by created_at, newest first, in
\* every state: after a load, and after every add reply whatever the order
\* in which the replies of concurrent adds arrive.
C18_NewestFirst ==
  \A i, j \in DOMAIN cards : i < j => cards[i].created_at >= cards[j].created_at

\* =================================================== the AI adapter alone
\* generateCardDetails after its await, run once on a response whose
\* translations or examples list holds any items: fields present, empty or
\* absent, language codes repeated.
TranslationItems ==
  {[languageCode |-> c, translation |-> t] :
     c \in {"", "en", "de"}, t \in {"", "t", "u"}}
  \cup {[languageCode |-> c] : c \in {"", "en", "de"}}
  \cup {[translation |-> t] : t \in {"", "t", "u"}}
  \cup {EmptyMap}

ExampleItems ==
  {[languageCode |-> c, sentences |-> s] :
     c \in {"", "en", "de"}, s \in {<<>>, <<Sentence>>}}
  \cup {[languageCode |-> c] : c \in {"", "en", "de"}}
  \cup {[sentences |-> s] : s \in {<<>>, <<Sentence>>}}
  \cup {EmptyMap}

ListsOf(S) == UNION {[1..n -> S] : n \in 0..MaxItems}

GenResponses ==
  {[kind |-> "json",
    data |-> [translations |-> JsonList(ts), examples |-> JsonList(<<>>)]] :
     ts \in ListsOf(TranslationItems)}
  \cup
  {[kind |-> "json",
    data |-> [translations |-> JsonList(<<>>), examples |-> JsonList(es)]] :
     es \in ListsOf(ExampleItems)}

InitGenerate ==
  /\ AppInit({RealApiKey}, InitialCards, {})
  /\ StudyInit
  /\ GwInit
  /\ genRun \in {[response |-> r] : r \in GenResponses}

RunGenerate ==
  /\ "result" \notin DOMAIN genRun
  /\ genRun' = [response |-> genRun.response,
                result |-> parseResponse(genRun.response)]
  /\ UNCHANGED <<appVars, studyVars, gwVars>>

NextGenerate == RunGenerate

SpecGenerate == InitGenerate /\ [][NextGenerate]_vars

\* the field is in the item, whatever its value
HasField(item, f) == f \in DOMAIN item

\* the mapping holds exactly the codes of the items at the indices kept,
\* each with the value of the last such item
MapsLastKept(map, items, f, kept) ==
  /\ DOMAIN map = {items[i].languageCode : i \in kept}
  /\ \A i \in kept :
       (\A j \in kept : j > i => items[j].languageCode # items[i].languageCode)
         => map[items[i].languageCode] = items[i][f]

\* C19: as stated.  The result of generateCardDetails maps languageCode to
\* translation for exactly the items that have both fields, and languageCode
\* to sentences for exactly the items that have both fields; of two items
\* with the same languageCode the later one gives the value.
C19_ReductionAsStated ==
  "result" \in DOMAIN genRun =>
    LET data == genRun.response.data
        ts == data.translations.items
        es == data.examples.items
        bothT == {i \in DOMAIN ts : HasField(ts[i], "languageCode")
                                    /\ HasField(ts[i], "translation")}
        bothE == {i \in DOMAIN es : HasField(es[i], "languageCode")
                                    /\ HasField(es[i], "sentences")}
    IN /\ genRun.result.ok
       /\ MapsLastKept(genRun.result.translations, ts, "translation", bothT)
       /\ MapsLastKept(genRun.result.examples, es, "sentences", bothE)

\* C19: amended.  An item counts only when its languageCode is present and
\* not the empty string and, for translations, its translation is present
\* and not the empty string, for examples, its sentences field is present
\* (an empty sentences list counts).  The result maps languageCode to
\* translation, and languageCode to sentences, for exactly these items, no
\* item makes the call fail, and of two items with the same languageCode the
\* later one gives the value.
C19_Reduction ==
  "result" \in DOMAIN genRun =>
    LET data == genRun.response.data
        ts == data.translations.items
        es == data.examples.items
        keptT == {i \in DOMAIN ts : TruthyStr(ts[i], "languageCode")
                                    /\ TruthyStr(ts[i], "translation")}
        keptE == {i \in DOMAIN es : TruthyStr(es[i], "languageCode")
                                    /\ TruthyObj(es[i], "sentences")}
    IN /\ genRun.result.ok
       /\ MapsLastKept(genRun.result.translations, ts, "translation", keptT)
       /\ MapsLastKept(genRun.result.examples, es, "sentences", keptE)

\* two items for "en" with different translations: the later one is in the
\* result
C19_Witness ==
  /\ "result" \in DOMAIN genRun
  /\ LET items == genRun.response.data.translations.items
     IN /\ Len(items) = 2
        /\ TruthyStr(items[1], "languageCode") /\ TruthyStr(items[1], "translation")
        /\ TruthyStr(items[2], "languageCode") /\ TruthyStr(items[2], "translation")
        /\ items[1].languageCode = items[2].languageCode
        /\ items[1].translation # items[2].translation
        /\ genRun.result.translations[items[2].languageCode] = items[2].translation

\* ======================================================= App with StudyView
\* The App as in Spec, and StudyView with its own state: the card it shows
\* is chosen when the component is mounted, after every render of the App
\* (the effect depends on the cards array, which every render of the App
\* builds anew) and by the timeout of handleNextCard.  The user studies,
\* deletes, changes the settings and signs out; no card is added meanwhile.
StudyCards == InitialCards \cup {cardRow(3, "u1", "es", <<"en">>, "en")}

InitStudy ==
  /\ AppInit({RealApiKey}, StudyCards, {})
  /\ StudyInit
  /\ GwInit
  /\ GenInit

\* StudyView shows a card and its three buttons
Displayed == Shown("study") /\ filteredCards # <<>> /\ currentCard # NoCard

\* variant: without setIsRevealed(false)
selectRandomCard_keepReveal(list) ==
  IF Len(list) = 0
  THEN currentCard' = NoCard /\ isRevealed' = isRevealed
       /\ sinceSelect' = "noCard"
  ELSE /\ \E i \in DOMAIN list : currentCard' = list[i]
       /\ isRevealed' = isRevealed
       /\ sinceSelect' = IF isRevealed THEN "reset" ELSE "selected"

\* selectRandomCard of a render whose cards prop was list
selectRandomCard(list) ==
  IF Len(list) = 0
  THEN currentCard' = NoCard /\ isRevealed' = isRevealed
       /\ sinceSelect' = "noCard"
  ELSE /\ \E i \in DOMAIN list : currentCard' = list[i]
       /\ isRevealed' = FALSE
       /\ sinceSelect' = IF isRevealed THEN "reset" ELSE "selected"

\* What a step of the App does to StudyView.  fresh: the step gave the App
\* a state value that is a new object; else the App renders again only when
\* a state value changed.
StudyEffect(fresh) ==
  LET mountedBefore == Shown("study")
      mountedNow == session' # NoUser
                    /\ renderContent(session', isLoading', error', view') = "study"
      rendered == fresh \/ <<session, cards, settings, view, isLoading, error>>'
                          # <<session, cards, settings, view, isLoading, error>>
  IN IF ~mountedNow
     THEN \* unmounted: the state is gone, late timeouts update nothing
          /\ currentCard' = NoCard
          /\ isRevealed' = FALSE
          /\ sinceSelect' = "unmounted"
          /\ isSpinning' = FALSE
          /\ timers' = EmptyBag
     ELSE IF ~mountedBefore
     THEN \* mounted: initial state, then the effect
          /\ \/ /\ Len(filteredCards') = 0
                /\ currentCard' = NoCard
                /\ sinceSelect' = "noCard"
             \/ /\ \E i \in DOMAIN filteredCards' : currentCard' = filteredCards'[i]
                /\ sinceSelect' = "selected"
          /\ isRevealed' = FALSE
          /\ isSpinning' = FALSE
          /\ timers' = EmptyBag
     ELSE IF rendered
     THEN \* rendered with a new cards array: the effect runs again
          /\ selectRandomCard(filteredCards')
          /\ UNCHANGED <<isSpinning, timers>>
     ELSE UNCHANGED studyVars

\* handleNextCard: the timeout keeps the selectRandomCard of this render
NextCard ==
  /\ Displayed
  /\ BagCardinality(timers) < MaxTimers
  /\ isSpinning' = TRUE
  /\ timers' = timers (+) One(filteredCards)
  /\ UNCHANGED <<currentCard, isRevealed, sinceSelect, appVars, gwVars, genRun>>

\* 300 ms later: selectRandomCard(); setIsSpinning(false)
TimerFire(list) ==
  /\ BagIn(list, timers)
  /\ selectRandomCard(list)
  /\ isSpinning' = FALSE
  /\ timers' = timers (-) One(list)
  /\ UNCHANGED <<appVars, gwVars, genRun>>

\* onClick of the Reveal / Hide button
ToggleReveal ==
  /\ Displayed
  /\ isRevealed' = ~isRevealed
  /\ sinceSelect' = IF isRevealed THEN "hidden" ELSE "revealed"
  /\ UNCHANGED <<currentCard, isSpinning, timers, appVars, gwVars, genRun>>

\* handleDelete on the card shown, confirmed: onDeleteCard(currentCard.id)
StudyDelete ==
  /\ Displayed
  /\ handleDeleteCard(currentCard.id)

Alone == UNCHANGED <<gwVars, genRun>>

NextStudy ==
  \/ \E u \in Users : SignIn(u) /\ StudyEffect(TRUE) /\ Alone
  \/ AuthNotify /\ StudyEffect(TRUE) /\ Alone
  \/ \E op \in Pend : ServerGetCards(op) /\ StudyEffect(FALSE) /\ Alone
  \/ \E op \in Pend : ServerGetSettings(op) /\ StudyEffect(FALSE) /\ Alone
  \/ \E op \in Pend : LoadReply(op) /\ StudyEffect(LoadFulfilled(op)) /\ Alone
  \/ LogoutStart /\ StudyEffect(FALSE) /\ Alone
  \/ \E op \in Pend : ServerSignOut(op) /\ StudyEffect(FALSE) /\ Alone
  \/ \E op \in Pend : LogoutReply(op) /\ StudyEffect(FALSE) /\ Alone
  \/ \E v \in {"study", "add", "settings"} : SetView(v) /\ StudyEffect(FALSE) /\ Alone
  \/ StudyDelete /\ StudyEffect(TRUE) /\ Alone
  \/ \E op \in Pend : ServerDelete(op) /\ StudyEffect(FALSE) /\ Alone
  \/ \E op \in Pend : DeleteReply(op) /\ StudyEffect(op.res.st = "fail") /\ Alone
  \/ \E p \in SettingsProposals : SaveStart(p) /\ StudyEffect(FALSE) /\ Alone
  \/ \E op \in Pend : ServerSave(op) /\ StudyEffect(FALSE) /\ Alone
  \/ \E op \in Pend : SaveReply(op) /\ StudyEffect(op.res.st = "ok") /\ Alone
  \/ NextCard
  \/ \E list \in BagToSet(timers) : TimerFire(list)
  \/ ToggleReveal

SpecStudy == InitStudy /\ [][NextStudy]_vars

\* C20: whenever StudyView is on screen with a non-empty cards list, the
\* card it shows is a member of that list (so it shows no card that a
\* delete has removed from the list), after any Next Card clicks, timeouts,
\* deletes and changes of the list.
C20_SelectionInList ==
  Shown("study") /\ filteredCards # <<>> =>
    \E i \in DOMAIN filteredCards : filteredCards[i] = currentCard

\* handleDeleteCard was called in this step with an id that is not in cards
AbsentDeleteStarted ==
  /\ started' = started + 1
  /\ \E op \in BagToSet(ops') :
       /\ op.kind = "delete"
       /\ op.res = Pending
       /\ Copies(ops', op) > Copies(ops, op)
       /\ op.originalCards = cards
       /\ \A i \in DOMAIN cards : cards[i].id # op.id

\* C15: a handleDeleteCard call with an id that is not in cards leaves cards
\* and error as they are when it starts, and again when its backend delete
\* has succeeded and the handler resumes.
C15_AbsentDeleteNoOp ==
  [][/\ AbsentDeleteStarted => cards' = cards /\ error' = error
     /\ \A op \in Pend :
          /\ op.kind = "delete"
          /\ (\A i \in DOMAIN op.originalCards : op.originalCards[i].id # op.id)
          /\ op.res.st = "ok"
          /\ Replied(op)
          => done' = "deleteOk" /\ cards' = cards /\ error' = error]_vars

\* the backend has answered a delete of an id that was not in cards, while
\* the list was not empty
C15_Witness ==
  \E op \in Pend :
    /\ op.kind = "delete"
    /\ op.res.st = "ok"
    /\ op.originalCards # <<>>
    /\ \A i \in DOMAIN op.originalCards : op.originalCards[i].id # op.id

\* C21: while a loadData call waits at its await, isLoading is true, also
\* when two loadData calls overlap because setSession ran twice.
C21_LoadingWhileInFlight ==
  (\E op \in Pend : op.kind = "load") => isLoading

\* ===================================================== the add-card form
\* The App around AddCardForm, with settings rows of any content stored by
\* earlier runs or other clients: none, a valid one, one without target
\* language, one without source languages.
StoredSettings ==
  { {},
    {settingsWithUser([targetLanguage |-> "es", sourceLanguages |-> <<"en">>], "u1")},
    {settingsWithUser([targetLanguage |-> "", sourceLanguages |-> <<"en">>], "u1")},
    {settingsWithUser([targetLanguage |-> "es", sourceLanguages |-> <<>>], "u1")} }

InitForm ==
  /\ \E stored \in StoredSettings : AppInit({RealApiKey}, InitialCards, stored)
  /\ StudyInit
  /\ GwInit
  /\ GenInit

NextForm ==
  \/ \E u \in Users : SignIn(u) /\ AppAlone
  \/ \E op \in Pend : ServerGetCards(op) /\ AppAlone
  \/ \E op \in Pend : ServerGetSettings(op) /\ AppAlone
  \/ \E op \in Pend : LoadReply(op) /\ AppAlone
  \/ \E v \in {"study", "add", "settings"} : SetView(v) /\ AppAlone
  \/ \E t \in FrontTexts : SubmitIgnored(t) /\ AppAlone
  \/ \E t \in FrontTexts : Submit(t) /\ AppAlone
  \/ \E op \in Pend : ServerAi(op) /\ AppAlone
  \/ \E op \in Pend : AiReply(op) /\ AppAlone
  \/ \E op \in Pend : ServerCreate(op) /\ AppAlone
  \/ \E op \in Pend : AddReply(op) /\ AppAlone

SpecForm == InitForm /\ [][NextForm]_vars

\* C22: every generateCardDetails call made by the form has a frontText
\* with a character other than blanks, a targetLanguage other than '' and at
\* least one source language; a handleSubmit call on a form that is not
\* valid starts no AI call and no createCard call and changes no state of
\* the form, the App or the backend.
C22_NoInvalidSubmit ==
  [][/\ \A op \in BagToSet(ops') :
          op.kind = "ai" =>
            /\ \E i \in DOMAIN op.req.frontText : op.req.frontText[i] # " "
            /\ op.req.targetLanguage # ""
            /\ op.req.sourceLanguages # <<>>
     /\ done' = "submitIgnored" =>
          UNCHANGED <<apiKey, authUser, dbCards, dbSettings, nextId, session,
                      cards, settings, view, isLoading, error, filteredCards,
                      formLoading, formError, ops, started>>]_vars

\* handleSubmit has returned at once on a form without source languages
C22_Witness ==
  /\ done = "submitIgnored"
  /\ Shown("add")
  /\ settings.sourceLanguages = <<>>

\* C23: a card that selectRandomCard has just chosen, at mount, after Next
\* Card or after a render with a new cards array, is unrevealed, and
\* isRevealed is true only while the last thing done to the card on screen
\* since it was chosen is a click on Reveal; without a card on screen
\* nothing is shown revealed.
C23_RevealReset ==
  /\ sinceSelect \in {"selected", "reset"} => currentCard # NoCard /\ ~isRevealed
  /\ isRevealed /\ currentCard # NoCard => sinceSelect = "revealed"
  /\ isRevealed => sinceSelect \in {"revealed", "noCard"}

\* a card has been chosen while the card before it was shown revealed, and
\* is on screen
C23_Witness ==
  /\ Displayed
  /\ sinceSelect = "reset"
====
